---- MODULE Spec2Model ----
(***************************************************************************)
(* The archive subsystem of catch (src/src/main.rs).                       *)
(*                                                                         *)
(* save_to_db appends one named byte payload to a flat text archive, in    *)
(* the Standard (---ENTRY---) or the Quantum (###ENTRY###) variant;        *)
(* load_from_db scans the archive line by line and writes the payload of   *)
(* the first entry whose name equals the target to an output file.         *)
(*                                                                         *)
(* A file is a sequence of bytes (0..255).  Text is the sequence of its    *)
(* bytes: every literal of the source is ASCII, and the names the model    *)
(* draws are ASCII too, so a character is one byte.                        *)
(***************************************************************************)
EXTENDS Integers, Sequences, FiniteSets, TLC

\* -------------------------------------------------------------------------
\* String literals of the source, as bytes
\* -------------------------------------------------------------------------

\* "\n", written by every writeln! and the line separator of BufRead::lines
NL == <<10>>

\* "###ENTRY###"
QuantumStart == <<35, 35, 35, 69, 78, 84, 82, 89, 35, 35, 35>>

\* "###END###"
QuantumEnd == <<35, 35, 35, 69, 78, 68, 35, 35, 35>>

\* "---ENTRY---"
StandardStart == <<45, 45, 45, 69, 78, 84, 82, 89, 45, 45, 45>>

\* "\n---END---"
StandardEnd == <<10, 45, 45, 45, 69, 78, 68, 45, 45, 45>>

\* "NAME:"
NamePrefix == <<78, 65, 77, 69, 58>>

\* "SIZE:"
SizePrefix == <<83, 73, 90, 69, 58>>

\* "[DEC] "
DecPrefix == <<91, 68, 69, 67, 93, 32>>

\* "[OCT] "
OctPrefix == <<91, 79, 67, 84, 93, 32>>

\* "[HEX] "
HexPrefix == <<91, 72, 69, 88, 93, 32>>

\* "DATA: "
DataPrefix == <<68, 65, 84, 65, 58, 32>>

\* "ENTRY", the text load_from_db looks for in a line
EntryPat == <<69, 78, 84, 82, 89>>

\* "END"
EndPat == <<69, 78, 68>>

\* "SIZE:" in the place of "DATA:": a decoder that reads the SIZE: line as a
\* payload line
SizeTag == <<83, 73, 90, 69, 58>>

\* "DATA:"
DataTag == <<68, 65, 84, 65, 58>>

\* "[HEX]"
HexTag == <<91, 72, 69, 88, 93>>

\* -------------------------------------------------------------------------
\* Formatting (the encoder side)
\* -------------------------------------------------------------------------

\* The digits of n in the given radix, most significant first, no padding,
\* digits above 9 as upper-case letters: b.to_string() for radix 10,
\* format!("{:o}", b) for radix 8.
RECURSIVE Digits(_, _)
Digits(n, radix) ==
    LET d == n % radix
        c == IF d < 10 THEN 48 + d ELSE 55 + d
    IN  IF n < radix THEN <<c>> ELSE Digits(n \div radix, radix) \o <<c>>

\* b.to_string() and data.len() in "SIZE:{}"
to_string(n) == Digits(n, 10)

\* format!("{:o}", b)
format_o(b) == Digits(b, 8)

\* format!("{:02X}", b): two upper-case hexadecimal digits, zero-padded
format_02X(b) ==
    LET s == Digits(b, 16) IN IF Len(s) < 2 THEN <<48>> \o s ELSE s

\* The concatenation of a sequence of sequences, in order (by halves, so that
\* the evaluation depth stays logarithmic in the number of pieces)
RECURSIVE concat(_)
concat(ss) ==
    IF Len(ss) = 0 THEN <<>>
    ELSE IF Len(ss) = 1 THEN ss[1]
    ELSE LET mid == Len(ss) \div 2
         IN  concat(SubSeq(ss, 1, mid)) \o concat(SubSeq(ss, mid + 1, Len(ss)))

\* tokens.join(" "): a single space between consecutive tokens
join(tokens) ==
    concat([i \in 1..Len(tokens) |->
              IF i = 1 THEN tokens[i] ELSE <<32>> \o tokens[i]])

\* -------------------------------------------------------------------------
\* save_to_db: the bytes of one entry
\* -------------------------------------------------------------------------

\* The pieces that are not empty, in order: write_all makes no write(2) for
\* an empty piece
nonempty(ps) ==
    concat([i \in 1..Len(ps) |-> IF Len(ps[i]) = 0 THEN << >> ELSE << ps[i] >>])

\* The write(2) calls of the Quantum branch.  The file is not buffered, so
\* each writeln! makes one write per piece of its format string: the literal
\* text before the argument, the argument, and the text after it (the
\* newline); a format string without argument is one piece.
quantum_writes(filename, data) ==
    nonempty(<< QuantumStart \o NL,
                NamePrefix, filename, NL,
                SizePrefix, to_string(Len(data)), NL,
                DecPrefix, join([i \in 1..Len(data) |-> to_string(data[i])]), NL,
                OctPrefix, join([i \in 1..Len(data) |-> format_o(data[i])]), NL,
                HexPrefix, join([i \in 1..Len(data) |-> format_02X(data[i])]), NL,
                QuantumEnd \o NL >>)

\* The write(2) calls of write!(file, "{:02X} ", b): the padding zero of a
\* byte below 16 is a write of its own, then the digits, then the space
format_02X_writes(b) ==
    (IF b < 16 THEN << <<48>> >> ELSE << >>) \o << Digits(b, 16), <<32>> >>

\* The write(2) calls of the loop over data.iter().enumerate() in the
\* Standard branch: those of "{:02X} " for every byte, and a bare newline
\* after every 16th byte
data_loop_writes(data) ==
    concat([i \in 1..Len(data) |->
              IF i % 16 = 0
              THEN format_02X_writes(data[i]) \o << NL >>
              ELSE format_02X_writes(data[i])])

\* The write(2) calls of the Standard branch, in program order
standard_writes(filename, data) ==
    nonempty(<< StandardStart \o NL,
                NamePrefix, filename, NL,
                SizePrefix, to_string(Len(data)), NL,
                DataPrefix >>)
    \o data_loop_writes(data)
    \o << StandardEnd \o NL >>

\* Every write(2) of one save_to_db call, in program order
save_writes(filename, data, quantum) ==
    IF quantum THEN quantum_writes(filename, data)
    ELSE standard_writes(filename, data)

\* The bytes a save_to_db call that returns Ok(()) has appended
entry_bytes(filename, data, quantum) ==
    concat(save_writes(filename, data, quantum))

\* -------------------------------------------------------------------------
\* String functions used by load_from_db
\* -------------------------------------------------------------------------

\* l.contains(pat)
contains(l, pat) ==
    \E i \in 1..(Len(l) - Len(pat) + 1) : SubSeq(l, i, i + Len(pat) - 1) = pat

\* l.starts_with(pat)
starts_with(l, pat) ==
    Len(l) >= Len(pat) /\ SubSeq(l, 1, Len(pat)) = pat

\* l[n..]: the text after the first n bytes
slice_from(l, n) == SubSeq(l, n + 1, Len(l))

\* char::is_whitespace on an ASCII character: \t \n \x0B \x0C \r and space
is_whitespace(c) == c \in {9, 10, 11, 12, 13, 32}

\* The number of bytes of the White_Space character (char::is_whitespace)
\* whose UTF-8 encoding starts at s[i], 0 when none starts there:
\*   U+0009..U+000D, U+0020; U+0085, U+00A0 (C2 85, C2 A0); U+1680 (E1 9A 80);
\*   U+2000..U+200A, U+2028, U+2029, U+202F (E2 80 80..8A, A8, A9, AF);
\*   U+205F (E2 81 9F); U+3000 (E3 80 80)
whitespace_width(s, i) ==
    LET b(k) == IF k <= Len(s) THEN s[k] ELSE 0
    IN  IF is_whitespace(s[i]) THEN 1
        ELSE IF s[i] = 194 /\ b(i + 1) \in {133, 160} THEN 2
        ELSE IF s[i] = 225 /\ b(i + 1) = 154 /\ b(i + 2) = 128 THEN 3
        ELSE IF /\ s[i] = 226 /\ b(i + 1) = 128
                /\ b(i + 2) \in (128..138) \cup {168, 169, 175} THEN 3
        ELSE IF s[i] = 226 /\ b(i + 1) = 129 /\ b(i + 2) = 159 THEN 3
        ELSE IF s[i] = 227 /\ b(i + 1) = 128 /\ b(i + 2) = 128 THEN 3
        ELSE 0

\* Whether the byte s[i] belongs to a White_Space character
in_whitespace(s, i) ==
    \/ whitespace_width(s, i) > 0
    \/ i > 1 /\ whitespace_width(s, i - 1) >= 2
    \/ i > 2 /\ whitespace_width(s, i - 2) = 3

\* s.trim().split_whitespace(): the maximal runs of characters that are not
\* White_Space, in order
split_whitespace(s) ==
    LET starts(i) == ~in_whitespace(s, i) /\ (i = 1 \/ in_whitespace(s, i - 1))
        stop(i) == CHOOSE j \in i..Len(s) :
                      /\ \A k \in i..j : ~in_whitespace(s, k)
                      /\ (j = Len(s) \/ in_whitespace(s, j + 1))
    IN  concat([i \in 1..Len(s) |->
                  IF starts(i) THEN << SubSeq(s, i, stop(i)) >> ELSE << >>])

\* char::to_digit(16): the value of a hexadecimal digit, -1 for any other byte
to_digit16(c) ==
    IF c \in 48..57 THEN c - 48
    ELSE IF c \in 65..70 THEN c - 55
    ELSE IF c \in 97..102 THEN c - 87
    ELSE -1

\* The value of a string of hexadecimal digits, 256 standing for any value
\* that does not fit in a u8 (checked_mul / checked_add overflow), -1 when a
\* byte is not a digit
RECURSIVE digits_value(_)
digits_value(ds) ==
    IF Len(ds) = 0 THEN 0
    ELSE LET hi == digits_value(SubSeq(ds, 1, Len(ds) - 1))
             d  == to_digit16(ds[Len(ds)])
         IN  IF hi = -1 \/ d = -1 THEN -1
             ELSE IF hi * 16 + d > 255 THEN 256
             ELSE hi * 16 + d

\* u8::from_str_radix(p, 16): the byte, or -1 for Err.  An empty string, a
\* lone sign, a '-' (u8 is unsigned), a non-digit and a value above 255 are
\* errors; one leading '+' is accepted.
from_str_radix(p) ==
    IF Len(p) = 0 THEN -1
    ELSE IF Len(p) = 1 /\ p[1] \in {43, 45} THEN -1
    ELSE LET ds == IF p[1] = 43 THEN Tail(p) ELSE p
             v  == digits_value(ds)
         IN  IF v \in 0..255 THEN v ELSE -1

\* The loop `for p in parts { if let Ok(b) = ... { collected.push(b) } }`:
\* the bytes of the tokens that parse, in order
parse_tokens(s) ==
    LET parts == split_whitespace(s)
    IN  concat([i \in 1..Len(parts) |->
                  IF from_str_radix(parts[i]) = -1 THEN << >>
                  ELSE << from_str_radix(parts[i]) >>])

\* -------------------------------------------------------------------------
\* BufRead::lines
\* -------------------------------------------------------------------------

\* Whether b[i] is a UTF-8 continuation byte
is_cont(b, i) == i <= Len(b) /\ b[i] \in 128..191

\* The length of the well-formed UTF-8 sequence that starts at the non-ASCII
\* byte b[i], 0 when there is none (core::str::from_utf8)
utf8_width(b, i) ==
    LET c == b[i]
        n == IF i < Len(b) THEN b[i + 1] ELSE 0
    IN  IF c \in 194..223 /\ is_cont(b, i + 1) THEN 2
        ELSE IF /\ \/ c = 224 /\ n \in 160..191
                   \/ c \in 225..236 /\ n \in 128..191
                   \/ c = 237 /\ n \in 128..159
                   \/ c \in 238..239 /\ n \in 128..191
                /\ is_cont(b, i + 2) THEN 3
        ELSE IF /\ \/ c = 240 /\ n \in 144..191
                   \/ c \in 241..243 /\ n \in 128..191
                   \/ c = 244 /\ n \in 128..143
                /\ is_cont(b, i + 2) /\ is_cont(b, i + 3) THEN 4
        ELSE 0

\* Whether b[i..] is valid UTF-8: read_line fails with InvalidData otherwise
RECURSIVE valid_utf8_from(_, _)
valid_utf8_from(b, i) ==
    IF \A j \in i..Len(b) : b[j] < 128 THEN TRUE
    ELSE LET j == CHOOSE j \in i..Len(b) :
                     b[j] >= 128 /\ \A k \in i..(j - 1) : b[k] < 128
             w == utf8_width(b, j)
         IN  w > 0 /\ valid_utf8_from(b, j + w)

valid_utf8(b) == valid_utf8_from(b, 1)

\* One read_line on a file whose first pos bytes are consumed: the bytes up to
\* and including the next "\n", or up to the end of the file.
\*   raw: the bytes read, next: the position after them
read_line(f, pos) ==
    LET rest == (pos + 1)..Len(f)
        nl == IF \E j \in rest : f[j] = 10
              THEN CHOOSE j \in rest :
                      f[j] = 10 /\ \A k \in (pos + 1)..(j - 1) : f[k] # 10
              ELSE Len(f)
    IN  [raw |-> SubSeq(f, pos + 1, nl), next |-> nl]

\* The String that Lines::next yields for the bytes read: when they end in
\* "\n" it is removed, and then a final "\r" if there is one; bytes that do
\* not end in "\n" (the last line of a file without final newline) are kept
\* as they are, a final "\r" included
line_of(raw) ==
    IF Len(raw) > 0 /\ raw[Len(raw)] = 10
    THEN LET a == SubSeq(raw, 1, Len(raw) - 1)
         IN  IF Len(a) > 0 /\ a[Len(a)] = 13 THEN SubSeq(a, 1, Len(a) - 1)
             ELSE a
    ELSE raw

\* -------------------------------------------------------------------------
\* load_from_db: what one line does
\* -------------------------------------------------------------------------

\* The branch of the if / else-if chain that line l takes
line_kind(l, ins) ==
    IF contains(l, EntryPat) THEN "start"
    ELSE IF starts_with(l, NamePrefix) THEN "name"
    ELSE IF starts_with(l, DataTag) THEN "data"
    ELSE IF starts_with(l, HexTag) THEN "hex"
    ELSE IF contains(l, EndPat) /\ ins THEN "end"
    ELSE "other"

\* l.split_once(':').unwrap().1: the text after the first colon
after_first_colon(l) ==
    LET c == CHOOSE i \in 1..Len(l) : l[i] = 58 /\ \A k \in 1..(i - 1) : l[k] # 58
    IN  SubSeq(l, c + 1, Len(l))

\* The scan state after line l, st = [inside, collected, current_name], and
\* whether the line is an end marker at which the name matches (hit)
line_step(st, l, tgt) ==
    LET kind == line_kind(l, st.inside)
    IN  CASE kind = "start" ->
               [inside |-> TRUE, collected |-> << >>, current_name |-> << >>,
                hit |-> FALSE]
          [] kind = "name" ->
               [inside |-> st.inside, collected |-> st.collected,
                current_name |-> after_first_colon(l), hit |-> FALSE]
          [] kind = "data" ->
               [inside |-> st.inside,
                collected |-> st.collected \o parse_tokens(slice_from(l, Len(DataTag))),
                current_name |-> st.current_name, hit |-> FALSE]
          [] kind = "hex" ->
               [inside |-> st.inside,
                collected |-> st.collected \o parse_tokens(slice_from(l, 5)),
                current_name |-> st.current_name, hit |-> FALSE]
          [] kind = "end" ->
               IF st.current_name = tgt
               THEN [inside |-> st.inside, collected |-> st.collected,
                     current_name |-> st.current_name, hit |-> TRUE]
               ELSE [inside |-> FALSE, collected |-> st.collected,
                     current_name |-> st.current_name, hit |-> FALSE]
          [] OTHER ->
               [inside |-> st.inside, collected |-> st.collected,
                current_name |-> st.current_name, hit |-> FALSE]

\* -------------------------------------------------------------------------
\* Results
\* -------------------------------------------------------------------------

\* Ok(())
Ok == [ok |-> TRUE, kind |-> "", repr |-> ""]

\* No call has returned yet
NoResult == [ok |-> FALSE, kind |-> "", repr |-> ""]

\* Err(e): e.kind() and how e was made ("Os": from an errno of a system call,
\* "Custom": std::io::Error::new, "Simple": a constant message of std)
Err(kind, repr) == [ok |-> FALSE, kind |-> kind, repr |-> repr]

\* The error built at the end of load_from_db
NotFoundInDb == Err("NotFound", "Custom")

\* What `line?` returns for a line that is not UTF-8
InvalidUtf8 == Err("InvalidData", "Simple")

\* What File::open(dbfile)? returns when dbfile does not exist (ENOENT)
NoSuchFile == Err("NotFound", "Os")

\* What File::open and File::create return on EACCES
Denied == Err("PermissionDenied", "Os")

\* What `line?` returns when the read of the archive fails (EIO)
ReadFailed == Err("Uncategorized", "Os")

\* The call did not return: println! panicked ("failed printing to stdout")
Panicked == [ok |-> FALSE, kind |-> "Panic", repr |-> "Panic"]

\* The scan state at `let mut inside = false; ...`
scan_init == [inside |-> FALSE, collected |-> << >>, current_name |-> << >>]

\* The whole `for line in reader.lines()` loop on file content f from position
\* pos in scan state st, as a function: the result returned, whether and what
\* it writes to the output (File::create succeeding), and where it stops
RECURSIVE scan_from(_, _, _, _)
scan_from(f, pos, st, tgt) ==
    IF pos >= Len(f)
    THEN [res |-> NotFoundInDb, wrote |-> FALSE, bytes |-> << >>, stop |-> pos]
    ELSE LET ln == read_line(f, pos)
         IN  IF ~valid_utf8(ln.raw)
             THEN [res |-> InvalidUtf8, wrote |-> FALSE, bytes |-> << >>,
                   stop |-> ln.next]
             ELSE LET n == line_step(st, line_of(ln.raw), tgt)
                  IN  IF n.hit
                      THEN [res |-> Ok, wrote |-> TRUE, bytes |-> n.collected,
                            stop |-> ln.next]
                      ELSE scan_from(f, ln.next,
                                     [inside |-> n.inside,
                                      collected |-> n.collected,
                                      current_name |-> n.current_name], tgt)

\* load_from_db on an archive that exists with content f, under a file system
\* without faults
extract(f, tgt) == scan_from(f, 0, scan_init, tgt)

\* -------------------------------------------------------------------------
\* State
\* -------------------------------------------------------------------------

\* The two paths of a run: the archive (dbfile) and the output path of /o
DbPath == "db"
OutPath == "out"
Paths == {DbPath, OutPath}

VARIABLES
    fs,            \* the file system: path -> [ex: the file exists, data: its bytes]
    calls,         \* the save_to_db calls made, in order: their arguments, the
                   \* archive's length at the call (at) and whether Ok was returned
    pc,            \* load_from_db: "idle", "scan" (in the for loop), "done" (returned)
    target,        \* load_from_db's argument target
    out,           \* load_from_db's argument out (a path)
    pos,           \* bytes of dbfile that reader.lines() has consumed
    inside,        \* load_from_db's local inside
    collected,     \* load_from_db's local collected
    current_name,  \* load_from_db's local current_name
    result,        \* what load_from_db returned
    pre,           \* the file system when load_from_db was called
    edit,          \* the edit made to the archive outside the program, if any:
                   \* its kind, the offset of the edited line, the bytes before
    writers        \* the save_to_db calls that run concurrently: for each
                   \* thread its arguments and the number of writes it has
                   \* made, and whether two calls have overlapped in time

vars == << fs, calls, pc, target, out, pos, inside, collected, current_name,
           result, pre, edit, writers >>

loader == << pc, target, out, pos, inside, collected, current_name, result, pre >>

NoFile == [ex |-> FALSE, data |-> << >>]

\* The archive has not been edited
NoEdit == [kind |-> "none", at |-> 0, orig |-> << >>]

\* The threads that call save_to_db concurrently
Threads == {1, 2}

\* A thread that has not called save_to_db
NotCalled == [st |-> "off", filename |-> << >>, data |-> << >>,
              quantum |-> FALSE, k |-> 0]

\* No archive, no output file, no call made
Init ==
    /\ fs = [p \in Paths |-> NoFile]
    /\ calls = << >>
    /\ pc = "idle"
    /\ target = << >>
    /\ out = OutPath
    /\ pos = 0
    /\ inside = FALSE
    /\ collected = << >>
    /\ current_name = << >>
    /\ result = NoResult
    /\ pre = [p \in Paths |-> NoFile]
    /\ edit = NoEdit
    /\ writers = [proc |-> [w \in Threads |-> NotCalled], overlapped |-> FALSE]

\* -------------------------------------------------------------------------
\* save_to_db
\* -------------------------------------------------------------------------

\* save_to_db(DbPath, filename, data, quantum) returning Ok(()): the archive
\* is created if absent and every write is appended to it
save_to_db(filename, data, quantum) ==
    /\ pc = "idle"
    /\ fs' = [fs EXCEPT ![DbPath] =
                [ex |-> TRUE,
                 data |-> @.data \o entry_bytes(filename, data, quantum)]]
    /\ calls' = Append(calls, [filename |-> filename, data |-> data,
                               quantum |-> quantum, at |-> Len(fs[DbPath].data),
                               ok |-> TRUE])
    /\ UNCHANGED << loader, edit, writers >>

\* save_to_db returning an I/O error from a write (the `?` after a write! or a
\* writeln!): the file was opened, the first n bytes of the entry are in it
save_to_db_write_fails(filename, data, quantum, n) ==
    /\ pc = "idle"
    /\ n < Len(entry_bytes(filename, data, quantum))
    /\ fs' = [fs EXCEPT ![DbPath] =
                [ex |-> TRUE,
                 data |-> @.data
                          \o SubSeq(entry_bytes(filename, data, quantum), 1, n)]]
    /\ calls' = Append(calls, [filename |-> filename, data |-> data,
                               quantum |-> quantum, at |-> Len(fs[DbPath].data),
                               ok |-> FALSE])
    /\ UNCHANGED << loader, edit, writers >>

\* save_to_db returning the error of OpenOptions::open: nothing is touched
save_to_db_open_fails(filename, data, quantum) ==
    /\ pc = "idle"
    /\ calls' = Append(calls, [filename |-> filename, data |-> data,
                               quantum |-> quantum, at |-> Len(fs[DbPath].data),
                               ok |-> FALSE])
    /\ UNCHANGED << fs, loader, edit, writers >>

\* main, the download branch with /s: File::create(&outfile) creates or
\* truncates the /o path o, write_all puts the downloaded bytes there, and
\* save_to_db appends the entry to the archive, all without error.  The /o
\* path may be the archive itself: the archive then holds the downloaded
\* bytes followed by the entry.  filename is the text of the /o path; it is
\* not empty, since File::create("") fails (ENOENT) before anything is written.
main_download(o, filename, data, quantum) ==
    /\ pc = "idle"
    /\ filename # << >>
    /\ LET written == [fs EXCEPT ![o] = [ex |-> TRUE, data |-> data]]
       IN  /\ fs' = [written EXCEPT ![DbPath] =
                        [ex |-> TRUE,
                         data |-> @.data \o entry_bytes(filename, data, quantum)]]
           /\ calls' = Append(calls, [filename |-> filename, data |-> data,
                                      quantum |-> quantum,
                                      at |-> Len(written[DbPath].data),
                                      ok |-> TRUE])
    /\ UNCHANGED << loader, edit, writers >>

\* main, the download branch without /s: the /o path is created or truncated
\* and holds the downloaded bytes; save_to_db is not called
main_download_only(o, data) ==
    /\ pc = "idle"
    /\ fs' = [fs EXCEPT ![o] = [ex |-> TRUE, data |-> data]]
    /\ UNCHANGED << calls, loader, edit, writers >>

\* save_to_db called by thread w, up to the return of OpenOptions::open: the
\* archive is created if absent.  The call overlaps the call of another
\* thread that has not returned yet.
save_to_db_call(w, filename, data, quantum) ==
    /\ pc = "idle"
    /\ writers.proc[w].st = "off"
    /\ fs' = [fs EXCEPT ![DbPath].ex = TRUE]
    /\ writers' = [proc |-> [writers.proc EXCEPT ![w] =
                               [st |-> "open", filename |-> filename,
                                data |-> data, quantum |-> quantum, k |-> 0]],
                   overlapped |-> \/ writers.overlapped
                                  \/ \E v \in Threads \ {w} :
                                        writers.proc[v].st = "open"]
    /\ UNCHANGED << calls, loader, edit >>

\* A write of thread w to a file opened without append(true): the bytes go
\* to the thread's own file offset, over what is there
save_to_db_write_no_append(w) ==
    /\ writers.proc[w].st = "open"
    /\ LET me == writers.proc[w]
           ws == save_writes(me.filename, me.data, me.quantum)
           off == Len(concat(SubSeq(ws, 1, me.k)))
           old == fs[DbPath].data
       IN  /\ fs' = [fs EXCEPT ![DbPath].data =
                        SubSeq(old, 1, off) \o ws[me.k + 1]
                        \o SubSeq(old, off + Len(ws[me.k + 1]) + 1, Len(old))]
           /\ writers' = [writers EXCEPT
                            !.proc[w].k = me.k + 1,
                            !.proc[w].st = IF me.k + 1 = Len(ws) THEN "done"
                                           ELSE "open"]
    /\ UNCHANGED << calls, loader, edit >>

\* The next write(2) of thread w: the file was opened with
\* append(true), so the bytes go to the end of the file as it is now.  After
\* its last write the call returns Ok(()).
save_to_db_write(w) ==
    /\ writers.proc[w].st = "open"
    /\ LET me == writers.proc[w]
           ws == save_writes(me.filename, me.data, me.quantum)
       IN  /\ fs' = [fs EXCEPT ![DbPath].data = @ \o ws[me.k + 1]]
           /\ writers' = [writers EXCEPT
                            !.proc[w].k = me.k + 1,
                            !.proc[w].st = IF me.k + 1 = Len(ws) THEN "done"
                                           ELSE "open"]
    /\ UNCHANGED << calls, loader, edit >>

\* -------------------------------------------------------------------------
\* load_from_db
\* -------------------------------------------------------------------------

\* The call, up to the start of the loop: File::open(dbfile)? returns NotFound
\* when the archive does not exist
load_from_db_open(t, o) ==
    /\ pc = "idle"
    /\ target' = t
    /\ out' = o
    /\ pre' = fs
    /\ pos' = 0
    /\ inside' = FALSE
    /\ collected' = << >>
    /\ current_name' = << >>
    /\ IF fs[DbPath].ex
       THEN pc' = "scan" /\ result' = NoResult
       ELSE pc' = "done" /\ result' = NoSuchFile
    /\ UNCHANGED << fs, calls, edit, writers >>

\* File::open(dbfile)? failing on an archive that exists (EACCES)
load_from_db_open_denied(t, o) ==
    /\ pc = "idle"
    /\ fs[DbPath].ex
    /\ target' = t
    /\ out' = o
    /\ pre' = fs
    /\ pc' = "done"
    /\ result' = Denied
    /\ UNCHANGED << fs, calls, pos, inside, collected, current_name, edit, writers >>

\* One iteration of `for line in reader.lines()` in which the read of the
\* archive succeeds.  At an end marker whose name matches, File::create(out),
\* write_all and println! succeed and the call returns.
load_from_db_line ==
    /\ pc = "scan"
    /\ pos < Len(fs[DbPath].data)
    /\ LET ln == read_line(fs[DbPath].data, pos)
           n == line_step([inside |-> inside, collected |-> collected,
                           current_name |-> current_name],
                          line_of(ln.raw), target)
       IN  /\ pos' = ln.next
           /\ IF ~valid_utf8(ln.raw)
              THEN /\ pc' = "done"
                   /\ result' = InvalidUtf8
                   /\ UNCHANGED << fs, inside, collected, current_name >>
              ELSE /\ inside' = n.inside
                   /\ collected' = n.collected
                   /\ current_name' = n.current_name
                   /\ IF n.hit
                      THEN /\ fs' = [fs EXCEPT ![out] =
                                       [ex |-> TRUE, data |-> n.collected]]
                           /\ pc' = "done"
                           /\ result' = Ok
                      ELSE UNCHANGED << fs, pc, result >>
    /\ UNCHANGED << calls, target, out, pre, edit, writers >>

\* The iteration at a matching end marker when File::create(out)? fails: the
\* output is not touched and the error is returned
load_from_db_create_fails(e) ==
    /\ pc = "scan"
    /\ pos < Len(fs[DbPath].data)
    /\ LET ln == read_line(fs[DbPath].data, pos)
           n == line_step([inside |-> inside, collected |-> collected,
                           current_name |-> current_name],
                          line_of(ln.raw), target)
       IN  /\ valid_utf8(ln.raw)
           /\ n.hit
           /\ pos' = ln.next
           /\ pc' = "done"
           /\ result' = e
    /\ UNCHANGED << fs, calls, target, out, inside, collected, current_name, pre,
                    edit, writers >>

\* The iteration at a matching end marker when File::create(out)? succeeds
\* and outf.write_all(&collected)? fails: the output was truncated, the first
\* n bytes of the payload are in it, and the error is returned
load_from_db_write_fails(n, e) ==
    /\ pc = "scan"
    /\ pos < Len(fs[DbPath].data)
    /\ LET ln == read_line(fs[DbPath].data, pos)
           st == line_step([inside |-> inside, collected |-> collected,
                            current_name |-> current_name],
                           line_of(ln.raw), target)
       IN  /\ valid_utf8(ln.raw)
           /\ st.hit
           /\ n < Len(st.collected)
           /\ pos' = ln.next
           /\ inside' = st.inside
           /\ collected' = st.collected
           /\ current_name' = st.current_name
           /\ fs' = [fs EXCEPT ![out] =
                        [ex |-> TRUE, data |-> SubSeq(st.collected, 1, n)]]
           /\ pc' = "done"
           /\ result' = e
    /\ UNCHANGED << calls, target, out, pre, edit, writers >>

\* The iteration at a matching end marker when the output is written and
\* println! then fails to write to stdout: println! panics, so the call does
\* not return
load_from_db_print_panics ==
    /\ pc = "scan"
    /\ pos < Len(fs[DbPath].data)
    /\ LET ln == read_line(fs[DbPath].data, pos)
           st == line_step([inside |-> inside, collected |-> collected,
                            current_name |-> current_name],
                           line_of(ln.raw), target)
       IN  /\ valid_utf8(ln.raw)
           /\ st.hit
           /\ pos' = ln.next
           /\ inside' = st.inside
           /\ collected' = st.collected
           /\ current_name' = st.current_name
           /\ fs' = [fs EXCEPT ![out] = [ex |-> TRUE, data |-> st.collected]]
           /\ pc' = "done"
           /\ result' = Panicked
    /\ UNCHANGED << calls, target, out, pre, edit, writers >>

\* `let l = line?` when the read of the archive fails: the error of the read
\* is returned, at whatever point of the scan, and nothing is written
load_from_db_read_fails(e) ==
    /\ pc = "scan"
    /\ pc' = "done"
    /\ result' = e
    /\ UNCHANGED << fs, calls, target, out, pos, inside, collected,
                    current_name, pre, edit, writers >>

\* The end of the file: the loop ends and the NotFound error is returned
load_from_db_eof ==
    /\ pc = "scan"
    /\ pos >= Len(fs[DbPath].data)
    /\ pc' = "done"
    /\ result' = NotFoundInDb
    /\ UNCHANGED << fs, calls, target, out, pos, inside, collected,
                    current_name, pre, edit, writers >>

\* The call has returned and its locals are gone: the next call can start
load_from_db_return ==
    /\ pc = "done"
    /\ pc' = "idle"
    /\ target' = << >>
    /\ out' = OutPath
    /\ pos' = 0
    /\ inside' = FALSE
    /\ collected' = << >>
    /\ current_name' = << >>
    /\ result' = NoResult
    /\ pre' = [p \in Paths |-> NoFile]
    /\ UNCHANGED << fs, calls, edit, writers >>

\* -------------------------------------------------------------------------
\* Edits of the archive made outside the program (a text editor, a damaged
\* disk): what load_from_db then reads
\* -------------------------------------------------------------------------

\* The offsets (of the first byte) of the lines of f
line_starts(f) ==
    { s \in 1..Len(f) : s = 1 \/ f[s - 1] = 10 }

\* The line of f that starts at offset s, as load_from_db gets it
line_at(f, s) == line_of(read_line(f, s - 1).raw)

\* f with the text of the line at offset s replaced by l (the line's
\* terminator stays)
with_line(f, s, l) ==
    SubSeq(f, 1, s - 1) \o l \o SubSeq(f, s + Len(line_at(f, s)), Len(f))

\* The content of a [DEC] or [OCT] line is replaced by junk: the line keeps
\* its five-character tag, followed by junk
corrupt_redundant_line(s, junk) ==
    /\ pc = "idle"
    /\ edit = NoEdit
    /\ s \in line_starts(fs[DbPath].data)
    /\ LET l == line_at(fs[DbPath].data, s)
       IN  /\ \/ starts_with(l, SubSeq(DecPrefix, 1, 5))
              \/ starts_with(l, SubSeq(OctPrefix, 1, 5))
           /\ SubSeq(l, 1, 5) \o junk # l
           /\ fs' = [fs EXCEPT ![DbPath].data =
                        with_line(@, s, SubSeq(l, 1, 5) \o junk)]
    /\ edit' = [kind |-> "redundant", at |-> s, orig |-> fs[DbPath].data]
    /\ UNCHANGED << calls, loader, writers >>

\* The token tok is inserted into a DATA: or [HEX] line, before the token
\* that starts at offset p of the line, or at the end of the line
insert_token(s, p, tok) ==
    /\ pc = "idle"
    /\ edit = NoEdit
    /\ s \in line_starts(fs[DbPath].data)
    /\ LET l == line_at(fs[DbPath].data, s)
           token_start(i) ==
               IF i > 5 /\ i <= Len(l)
               THEN ~is_whitespace(l[i]) /\ is_whitespace(l[i - 1])
               ELSE FALSE
       IN  /\ starts_with(l, DataTag) \/ starts_with(l, HexTag)
           /\ p \in 1..(Len(l) + 1)
           /\ IF p = Len(l) + 1 THEN TRUE ELSE token_start(p)
           /\ fs' = [fs EXCEPT ![DbPath].data =
                        with_line(@, s,
                            IF p = Len(l) + 1 THEN l \o <<32>> \o tok
                            ELSE SubSeq(l, 1, p - 1) \o tok \o <<32>>
                                 \o SubSeq(l, p, Len(l)))]
    /\ edit' = [kind |-> "token", at |-> s, orig |-> fs[DbPath].data]
    /\ UNCHANGED << calls, loader, writers >>

\* The text after "SIZE:" on a SIZE: line is replaced by txt
change_size(s, txt) ==
    /\ pc = "idle"
    /\ edit = NoEdit
    /\ s \in line_starts(fs[DbPath].data)
    /\ LET l == line_at(fs[DbPath].data, s)
       IN  /\ starts_with(l, SizePrefix)
           /\ SizePrefix \o txt # l
           /\ fs' = [fs EXCEPT ![DbPath].data = with_line(@, s, SizePrefix \o txt)]
    /\ edit' = [kind |-> "size", at |-> s, orig |-> fs[DbPath].data]
    /\ UNCHANGED << calls, loader, writers >>

\* A line, l and its terminator "\n", is added at the end of the archive by
\* hand
write_line(l) ==
    /\ pc = "idle"
    /\ fs' = [fs EXCEPT ![DbPath] = [ex |-> TRUE, data |-> @.data \o l \o NL]]
    /\ UNCHANGED << calls, loader, edit, writers >>

\* -------------------------------------------------------------------------
\* Inputs and specifications
\* -------------------------------------------------------------------------

\* At most this many save_to_db calls in a run
MaxSaves == 2

\* Names given to save_to_db:
\*   "a", "A", "a " (trailing space), "" (empty), "a:b", "ENTRY", "END"
Names ==
    { <<97>>, <<65>>, <<97, 32>>, << >>, <<97, 58, 98>>,
      <<69, 78, 84, 82, 89>>, <<69, 78, 68>> }

\* Targets given to load_from_db: the names, and "a\r" (trailing carriage
\* return)
Targets == Names \cup { <<97, 13>> }

\* Payloads of the general scenario: one byte, and two bytes
Payloads == { <<171>>, <<1, 255>> }

\* Sequential calls on one archive, no I/O fault: any save_to_db calls, any
\* runs of main's download branch (its /o path the output path or the
\* archive) and any load_from_db calls, one after the other
Next ==
    \/ \E f \in Names, d \in Payloads, q \in BOOLEAN :
          Len(calls) < MaxSaves /\ save_to_db(f, d, q)
    \/ \E o \in Paths, f \in Names, d \in Payloads, q \in BOOLEAN :
          Len(calls) < MaxSaves /\ main_download(o, f, d, q)
    \/ \E o \in Paths, d \in Payloads : main_download_only(o, d)
    \/ \E t \in Targets : load_from_db_open(t, OutPath)
    \/ load_from_db_line
    \/ load_from_db_eof
    \/ load_from_db_return

Spec == Init /\ [][Next]_vars

\* The payload of length n of the round-trip scenario: the bytes 0, 1, 2, ...
\* for the 256-byte payload (every byte value), 255, 254, ... for the others
payload_of_len(n) ==
    IF n = 256 THEN [i \in 1..n |-> i - 1] ELSE [i \in 1..n |-> 256 - i]

\* The payload lengths of the round-trip property
RoundTripPayloads == { payload_of_len(n) : n \in {0, 1, 15, 16, 17, 256} }

\* Names of the round-trip scenario: "a" and ""
RoundTripNames == { <<97>>, << >> }

\* What the archive holds before the round trip: calls with the names "a" or
\* "ENTRY" and a one-byte payload, in either variant
PriorNames == { <<97>>, <<69, 78, 84, 82, 89>> }
PriorPayloads == { <<171>> }

\* At most this many save_to_db calls before the round-trip call
MaxPrior == 1

\* The offsets at which a failing write leaves the entry in this scenario:
\* after each complete write(2) but the last, and inside the text "NAME:"
write_cuts(filename, data, quantum) ==
    LET ws == save_writes(filename, data, quantum)
        upto(k) == Len(concat(SubSeq(ws, 1, k)))
    IN  { upto(k) : k \in 0..(Len(ws) - 1) }
        \cup { upto(1) + (Len(ws[2]) \div 2) }

\* The offsets at which the interrupted earlier call of the round-trip
\* scenario leaves its entry: those of write_cuts that lie in the start
\* marker and NAME: lines (up to the name, before its newline) or at the end
\* of a line
prior_cuts(filename, data, quantum) ==
    LET e == entry_bytes(filename, data, quantum)
        named == IF quantum THEN Len(QuantumStart \o NL \o NamePrefix \o filename)
                 ELSE Len(StandardStart \o NL \o NamePrefix \o filename)
    IN  { n \in write_cuts(filename, data, quantum) :
            IF n <= named THEN TRUE ELSE e[n] = 10 }

\* The round-trip scenario: an archive left by earlier calls (absent, empty,
\* holding a complete entry or an interrupted one), then one more save_to_db
\* call with a payload of each length, followed by load_from_db calls into
\* an output path that does not exist yet
NextRT ==
    \/ \E f \in PriorNames, d \in PriorPayloads, q \in BOOLEAN :
          Len(calls) < MaxPrior /\ save_to_db(f, d, q)
    \/ \E q \in BOOLEAN :
          \E n \in prior_cuts(<<97>>, <<171>>, q) :
             Len(calls) < MaxPrior /\ save_to_db_write_fails(<<97>>, <<171>>, q, n)
    \/ \E q \in BOOLEAN :
          Len(calls) < MaxPrior /\ save_to_db_open_fails(<<97>>, <<171>>, q)
    \/ \E f \in RoundTripNames, d \in RoundTripPayloads, q \in BOOLEAN :
          Len(calls) = MaxPrior /\ save_to_db(f, d, q)
    \/ \E t \in RoundTripNames :
          /\ Len(calls) = MaxPrior + 1
          /\ ~fs[OutPath].ex
          /\ load_from_db_open(t, OutPath)
    \/ load_from_db_line
    \/ load_from_db_eof
    \/ load_from_db_return

SpecRT == Init /\ [][NextRT]_vars

\* Names and payload of the edited-archive scenario: "a", "b"; two bytes
EditNames == { <<97>>, <<98>> }
EditPayloads == { <<1, 255>> }

\* What a [DEC] or [OCT] line is overwritten with, after its tag:
\*   "" (emptied), " 1" (truncated), " zz 9", " END", " ENTRY"
Junk ==
    { << >>, <<32, 49>>, <<32, 122, 122, 32, 57>>, <<32, 69, 78, 68>>,
      <<32, 69, 78, 84, 82, 89>> }

\* Tokens without whitespace that u8::from_str_radix(_, 16) rejects:
\*   "ZZ", "0x41", "-1", "END", "ENTRY"
BadTokens ==
    { <<90, 90>>, <<48, 120, 52, 49>>, <<45, 49>>, <<69, 78, 68>>,
      <<69, 78, 84, 82, 89>> }

\* Sequential calls on an archive that is edited once outside the program
NextEdit ==
    \/ \E f \in EditNames, d \in EditPayloads, q \in BOOLEAN :
          Len(calls) < MaxSaves /\ edit = NoEdit /\ save_to_db(f, d, q)
    \/ /\ pc = "idle"
       /\ \E s \in line_starts(fs[DbPath].data), junk \in Junk :
             corrupt_redundant_line(s, junk)
    \/ /\ pc = "idle"
       /\ \E s \in line_starts(fs[DbPath].data) :
             \E p \in 1..(Len(line_at(fs[DbPath].data, s)) + 1), tok \in BadTokens :
                insert_token(s, p, tok)
    \/ \E t \in EditNames \cup { << >> } : load_from_db_open(t, OutPath)
    \/ load_from_db_line
    \/ load_from_db_eof
    \/ load_from_db_return

SpecEdit == Init /\ [][NextEdit]_vars

\* Name, payload and targets of the scenario with I/O errors: "a"; "a", "b"
IONames == { <<97>> }
IOPayloads == { <<171>> }
IOTargets == { <<97>>, <<98>> }

\* What a failing write returns in this scenario (ENOSPC)
StorageFull == Err("StorageFull", "Os")

\* Sequential calls in which every system call may fail, and in which the
\* caller may name any path as the output, the archive included
NextIO ==
    \/ \E f \in IONames, d \in IOPayloads, q \in BOOLEAN :
          Len(calls) < MaxSaves /\ save_to_db(f, d, q)
    \/ \E f \in IONames, d \in IOPayloads, q \in BOOLEAN :
          \E n \in write_cuts(f, d, q) :
             Len(calls) < MaxSaves /\ save_to_db_write_fails(f, d, q, n)
    \/ \E f \in IONames, d \in IOPayloads, q \in BOOLEAN :
          Len(calls) < MaxSaves /\ save_to_db_open_fails(f, d, q)
    \/ \E t \in IOTargets, o \in Paths : load_from_db_open(t, o)
    \/ \E t \in IOTargets, o \in Paths : load_from_db_open_denied(t, o)
    \/ load_from_db_line
    \/ \E e \in { Denied, NoSuchFile } : load_from_db_create_fails(e)
    \/ \E n \in 0..1 : load_from_db_write_fails(n, StorageFull)
    \/ load_from_db_print_panics
    \/ load_from_db_read_fails(ReadFailed)
    \/ load_from_db_eof
    \/ load_from_db_return

SpecIO == Init /\ [][NextIO]_vars

\* Names and payloads of the mixed-variant scenario: "a", "b", "", "ENTRY";
\* one byte, and 17 bytes
MixNames == { <<97>>, <<98>>, << >>, <<69, 78, 84, 82, 89>> }
MixPayloads == { <<171>>, payload_of_len(17) }

\* Sequential calls that build an archive of entries of both variants and
\* extract from it
NextMix ==
    \/ \E f \in MixNames, d \in MixPayloads, q \in BOOLEAN :
          Len(calls) < MaxSaves /\ save_to_db(f, d, q)
    \/ \E t \in MixNames : load_from_db_open(t, OutPath)
    \/ load_from_db_line
    \/ load_from_db_eof
    \/ load_from_db_return

SpecMix == Init /\ [][NextMix]_vars

\* Names, payload and targets of the scenario with an edited SIZE: line:
\* "a", "ENTRY"; two bytes; "a", "ENTRY", ""
SizeNames == { <<97>>, <<69, 78, 84, 82, 89>> }
SizePayloads == { <<1, 255>> }
SizeTargets == SizeNames \cup { << >> }

\* The integers put on a SIZE: line: "0", "7", "-1", "4294967296"
SizeTexts ==
    { <<48>>, <<55>>, <<45, 49>>, <<52, 50, 57, 52, 57, 54, 55, 50, 57, 54>> }

\* Sequential calls on an archive one of whose SIZE: lines is changed outside
\* the program
NextSize ==
    \/ \E f \in SizeNames, d \in SizePayloads, q \in BOOLEAN :
          Len(calls) < MaxSaves /\ edit = NoEdit /\ save_to_db(f, d, q)
    \/ /\ pc = "idle"
       /\ \E s \in line_starts(fs[DbPath].data), txt \in SizeTexts :
             change_size(s, txt)
    \/ \E t \in SizeTargets : load_from_db_open(t, OutPath)
    \/ load_from_db_line
    \/ load_from_db_eof
    \/ load_from_db_return

SpecSize == Init /\ [][NextSize]_vars

\* At most this many lines in a hand-written archive
MaxLines == 4

\* The lines of hand-written archives:
\*   "---ENTRY---", "###END###", "NAME:a", "NAME:ENTRY", "DATA: 01",
\*   "[HEX] 02", "[DEC] END", and "DATA: 03<U+00A0>04" (two tokens separated
\*   by a no-break space)
HandLines ==
    { StandardStart,
      QuantumEnd,
      NamePrefix \o <<97>>,
      NamePrefix \o EntryPat,
      DataTag \o <<32, 48, 49>>,
      HexTag \o <<32, 48, 50>>,
      DecPrefix \o EndPat,
      DataTag \o <<32, 48, 51, 194, 160, 48, 52>> }

\* Targets of the extractions from hand-written archives: "a", "", "ENTRY"
HandTargets == { <<97>>, << >>, EntryPat }

\* The number of lines of f
RECURSIVE line_count(_, _)
line_count(f, p) ==
    IF p >= Len(f) THEN 0 ELSE 1 + line_count(f, read_line(f, p).next)

\* An archive written by hand, line by line, and then extractions from it
NextLines ==
    \/ \E l \in HandLines :
          /\ ~fs[OutPath].ex
          /\ line_count(fs[DbPath].data, 0) < MaxLines
          /\ write_line(l)
    \/ \E t \in HandTargets : load_from_db_open(t, OutPath)
    \/ load_from_db_line
    \/ load_from_db_eof
    \/ load_from_db_return

SpecLines == Init /\ [][NextLines]_vars

\* The offsets at which an interrupted append leaves the entry in the
\* torn-entry scenario: those of write_cuts, and every offset inside the
\* end-marker line that leaves the marker text incomplete
torn_cuts(filename, data, quantum) ==
    LET n == Len(entry_bytes(filename, data, quantum))
    IN  write_cuts(filename, data, quantum)
        \cup { k \in 0..(n - 2) : k >= n - Len(QuantumEnd) - 1 }

\* Sequential calls in which an append may be interrupted by a failing write,
\* and extractions from the archive that results
NextTorn ==
    \/ \E f \in IONames, d \in IOPayloads, q \in BOOLEAN :
          Len(calls) < MaxSaves /\ save_to_db(f, d, q)
    \/ \E f \in IONames, d \in IOPayloads, q \in BOOLEAN :
          \E n \in torn_cuts(f, d, q) :
             Len(calls) < MaxSaves /\ save_to_db_write_fails(f, d, q, n)
    \/ \E t \in IOTargets : load_from_db_open(t, OutPath)
    \/ load_from_db_line
    \/ load_from_db_eof
    \/ load_from_db_return

SpecTorn == Init /\ [][NextTorn]_vars

\* Tokens put on the payload lines in the token scenario:
\*   "A" (one digit), "+1" (a sign), "00A" and "1FF" (three characters),
\*   "ab" (two lowercase digits), "G1" (not hexadecimal)
HexLikeTokens ==
    { <<65>>, <<43, 49>>, <<48, 48, 65>>, <<49, 70, 70>>, <<97, 98>>,
      <<71, 49>> }

\* Sequential calls on an archive in which one token is inserted on a payload
\* line outside the program
NextTok ==
    \/ \E f \in EditNames, d \in EditPayloads, q \in BOOLEAN :
          Len(calls) < MaxSaves /\ edit = NoEdit /\ save_to_db(f, d, q)
    \/ /\ pc = "idle"
       /\ \E s \in line_starts(fs[DbPath].data) :
             \E p \in 1..(Len(line_at(fs[DbPath].data, s)) + 1),
                tok \in HexLikeTokens :
                insert_token(s, p, tok)
    \/ \E t \in EditNames : load_from_db_open(t, OutPath)
    \/ load_from_db_line
    \/ load_from_db_eof
    \/ load_from_db_return

SpecTok == Init /\ [][NextTok]_vars

\* What each thread saves in the concurrent scenario: "a" with one byte and
\* "b" with the empty payload, in the Standard variant (entries of few
\* writes, so that every interleaving of the two calls is explored)
ThreadName == [w \in Threads |-> IF w = 1 THEN <<97>> ELSE <<98>>]
ThreadPayload == [w \in Threads |-> IF w = 1 THEN <<171>> ELSE << >>]

\* Two threads that each call save_to_db once on the same archive, their
\* write(2) calls in any order, and extractions once no call is in progress
NextConc ==
    \/ \E w \in Threads :
          save_to_db_call(w, ThreadName[w], ThreadPayload[w], FALSE)
    \/ \E w \in Threads : save_to_db_write(w)
    \/ \E w \in Threads :
          /\ \A v \in Threads : writers.proc[v].st # "open"
          /\ ~fs[OutPath].ex
          /\ load_from_db_open(ThreadName[w], OutPath)
    \/ load_from_db_line
    \/ load_from_db_eof
    \/ load_from_db_return

SpecConc == Init /\ [][NextConc]_vars

\* -------------------------------------------------------------------------
\* Round trip (C1, C2)
\* -------------------------------------------------------------------------

\* A plain name: no line break (line feed, carriage return), no colon, and
\* no marker text (ENTRY, END)
PlainName(n) ==
    /\ \A i \in 1..Len(n) : n[i] \notin {10, 13, 58}
    /\ ~contains(n, EntryPat)
    /\ ~contains(n, EndPat)

\* The last save_to_db call returned Ok, and a load_from_db call made after
\* it with that call's name as target has returned
LoadedLastSaved(quantum) ==
    /\ pc = "done"
    /\ Len(calls) > 0
    /\ calls[Len(calls)].ok
    /\ calls[Len(calls)].quantum = quantum
    /\ calls[Len(calls)].data \in RoundTripPayloads
    /\ PlainName(calls[Len(calls)].filename)
    /\ target = calls[Len(calls)].filename

\* The load_from_db call that has returned succeeded and the output file
\* holds exactly the payload of the last save_to_db call
ExtractedLastSaved ==
    /\ result = Ok
    /\ fs[out] = [ex |-> TRUE, data |-> calls[Len(calls)].data]

\* The archive as it was when the last save_to_db call was made held no entry
\* that load_from_db extracts under the target (it was absent or empty, or a
\* scan of it for the target ends in NotFound)
NoEarlierMatch ==
    ~extract(SubSeq(pre[DbPath].data, 1, calls[Len(calls)].at), target).wrote

\* No earlier save_to_db call appended an entry under the target: the name
\* of every call that returned Ok before the last one differs from it
NoEarlierEntryNamed ==
    \A i \in 1..(Len(calls) - 1) :
        ~(calls[i].ok /\ calls[i].filename = target)

\* C1: a Quantum save_to_db of a payload of length 0, 1, 15, 16, 17 or 256
\* under a plain name, on an absent archive or on an existing one that holds
\* no entry appended under that name (of entries with the same name the
\* first is the one extracted), followed by load_from_db of that name,
\* succeeds and writes exactly the payload.
C1_QuantumRoundTrip ==
    (LoadedLastSaved(TRUE) /\ NoEarlierEntryNamed) => ExtractedLastSaved

\* C2: a Standard save_to_db of a payload of length 0, 1, 15, 16, 17 or 256
\* under a plain name (on an archive with no earlier entry of that name)
\* followed by load_from_db of that name succeeds and writes exactly the
\* payload, every byte after the 16th included.
C2_StandardRoundTrip ==
    (LoadedLastSaved(FALSE) /\ NoEarlierMatch) => ExtractedLastSaved

\* -------------------------------------------------------------------------
\* Lookup by name (C3 - C6)
\* -------------------------------------------------------------------------

\* The calls that appended a complete entry under name n, in file order
EntriesNamed(n) == { i \in 1..Len(calls) : calls[i].ok /\ calls[i].filename = n }

\* The first of them
FirstNamed(n) == CHOOSE i \in EntriesNamed(n) : \A j \in EntriesNamed(n) : i <= j

\* The offset in the archive right after the end marker line of the entry
\* that call i appended
EntryEnd(i) ==
    calls[i].at
    + Len(entry_bytes(calls[i].filename, calls[i].data, calls[i].quantum))

\* The archive that load_from_db was called on is what the save_to_db calls
\* made so far built: their entries in call order and nothing else (no other
\* write, such as a download into the archive's path, has touched it)
BuiltBySaves ==
    pre[DbPath].data =
        concat([i \in 1..Len(calls) |->
                  entry_bytes(calls[i].filename, calls[i].data, calls[i].quantum)])

\* The output file is as it was when load_from_db was called
OutputUntouched == fs[out] = pre[out]

\* C3: when several entries carry the target name, load_from_db returns at
\* the end marker of the first of them in file order and writes that entry's
\* payload; outcome and output are those of a scan of the archive cut right
\* after that end marker.
C3_FirstMatch ==
    (pc = "done" /\ BuiltBySaves /\ Cardinality(EntriesNamed(target)) >= 2) =>
        LET first == FirstNamed(target)
            cut == extract(SubSeq(pre[DbPath].data, 1, EntryEnd(first)), target)
        IN  /\ result = Ok
            /\ pos = EntryEnd(first)
            /\ fs[out] = [ex |-> TRUE, data |-> calls[first].data]
            /\ cut.res = result
            /\ cut.bytes = fs[out].data

\* C4: on an archive built by save_to_db calls, load_from_db of a target that
\* is not the name of any appended entry returns the NotFound error and
\* leaves the output path as it was (not created, not truncated, not
\* written).
C4_NotFound ==
    (pc = "done" /\ pre[DbPath].ex /\ BuiltBySaves /\ EntriesNamed(target) = {}) =>
        (result = NotFoundInDb /\ OutputUntouched)

\* C5: load_from_db extracts an entry only when the name on its NAME: line
\* is identical to the target: the entry at whose end marker a successful
\* call returned was appended under exactly the target, so a target that
\* differs in letter case or in trailing whitespace is not found.
C5_NameExact ==
    (pc = "done" /\ BuiltBySaves /\ result = Ok) =>
        \E i \in 1..Len(calls) :
            /\ calls[i].at < pos
            /\ pos <= EntryEnd(i)
            /\ calls[i].filename = target

\* C6: an entry appended under any name without a newline (names with colons
\* and names containing ENTRY or END included) is found by load_from_db with
\* that name as target: the call succeeds, the name captured equals the name
\* given to save_to_db, and the payload written is the one appended (that of
\* the first entry of that name; the archive before that entry holds nothing
\* that is extracted under the target).
C6_AnyNameRoundTrip ==
    (/\ pc = "done"
     /\ BuiltBySaves
     /\ EntriesNamed(target) # {}
     /\ ~extract(SubSeq(pre[DbPath].data, 1, calls[FirstNamed(target)].at),
                 target).wrote) =>
        /\ result = Ok
        /\ current_name = target
        /\ fs[out] = [ex |-> TRUE, data |-> calls[FirstNamed(target)].data]


\* -------------------------------------------------------------------------
\* Edited archives (C7, C8)
\* -------------------------------------------------------------------------

\* The entries whose lines include the edited one
EditedEntries ==
    { i \in 1..Len(calls) :
        calls[i].at < edit.at /\ edit.at <= EntryEnd(i) }

\* load_from_db has returned for the name of the entry that was edited, and
\* before the edit that entry was the one a load of this name extracted
LoadedEditedEntry(kind) ==
    /\ pc = "done"
    /\ edit.kind = kind
    /\ pre[DbPath].data = fs[DbPath].data
    /\ \E i \in EditedEntries :
          /\ calls[i].filename = target
          /\ extract(edit.orig, target).wrote
          /\ extract(edit.orig, target).stop
                = EntryEnd(i)

\* load_from_db returned what it returns on the archive as it was before the
\* edit
SameAsBeforeEdit ==
    /\ result = extract(edit.orig, target).res
    /\ fs[out].ex
    /\ fs[out].data = extract(edit.orig, target).bytes

\* C7: [DEC] and [OCT] lines are never parsed: after the content of such a
\* line of a Quantum entry is replaced by arbitrary text, load_from_db gives
\* the same result for that entry as before
C7_RedundantLinesIgnored ==
    LoadedEditedEntry("redundant") => SameAsBeforeEdit

\* C8: a whitespace-separated token of a DATA: or [HEX] line that is not a
\* hexadecimal u8 is skipped: after such a token is inserted, load_from_db
\* extracts the same bytes as before
C8_BadTokenSkipped ==
    LoadedEditedEntry("token") => SameAsBeforeEdit


\* -------------------------------------------------------------------------
\* The archive file under I/O errors (C9, C10)
\* -------------------------------------------------------------------------

\* a is a prefix of b
IsPrefix(a, b) ==
    Len(a) <= Len(b) /\ SubSeq(b, 1, Len(a)) = a

\* C9: the archive is append-only: in every step of every sequence of
\* save_to_db and load_from_db calls, failed ones included, the archive stays
\* in place and its content before the step is a prefix of its content after
\* the step, so its length never decreases
C9_AppendOnly ==
    [][ /\ fs[DbPath].ex => fs'[DbPath].ex
        /\ IsPrefix(fs[DbPath].data, fs'[DbPath].data) ]_vars

\* C10: the kind of the error that load_from_db returns at the end of the
\* file belongs to no other error it returns: a call that returns an error
\* of that kind had an archive to open and scanned all of it without a match
C10_EofErrorDistinct ==
    (pc = "done" /\ ~result.ok /\ result.kind = NotFoundInDb.kind)
        => /\ pre[DbPath].ex
           /\ extract(pre[DbPath].data, target).res = NotFoundInDb


\* -------------------------------------------------------------------------
\* Archives of both variants (C11)
\* -------------------------------------------------------------------------

\* The archive that the save_to_db calls made so far build when the calls in
\* S are made with the other variant
variant_archive(S) ==
    concat([j \in 1..Len(calls) |->
              entry_bytes(calls[j].filename, calls[j].data,
                          IF j \in S THEN ~calls[j].quantum
                          ELSE calls[j].quantum)])

\* load_from_db has returned on an archive that holds an entry appended
\* under the target
LoadedNamedEntry ==
    /\ pc = "done"
    /\ pre[DbPath].data = variant_archive({})
    /\ EntriesNamed(target) # {}

\* C11: both marker styles are recognised in one scan, and the outcome and
\* the output of load_from_db for a target entry are the same whichever
\* variant each entry before the target entry was written in
C11_MixedVariants ==
    LoadedNamedEntry =>
        \A S \in SUBSET (1..(FirstNamed(target) - 1)) :
            LET o == extract(variant_archive(S), target)
            IN  /\ o.res = result
                /\ o.wrote => fs[out] = [ex |-> TRUE, data |-> o.bytes]
                /\ ~o.wrote => OutputUntouched


\* -------------------------------------------------------------------------
\* The SIZE: line (C12)
\* -------------------------------------------------------------------------

\* C12: the integer on a SIZE: line is never checked: after it is changed to
\* any other integer, load_from_db returns what it returns on the unchanged
\* archive (never an error about the size) and writes the same bytes, or
\* leaves the output alone as before
C12_SizeNeverChecked ==
    (pc = "done" /\ edit.kind = "size") =>
        LET o == extract(edit.orig, target)
        IN  /\ result = o.res
            /\ o.wrote => fs[out] = [ex |-> TRUE, data |-> o.bytes]
            /\ ~o.wrote => OutputUntouched

\* The entry whose SIZE: line now reads -1 has been extracted with its two
\* bytes
C12_Witness ==
    /\ pc = "done"
    /\ edit.kind = "size"
    /\ line_at(fs[DbPath].data, edit.at) = SizePrefix \o <<45, 49>>
    /\ Len(calls) = 2
    /\ edit.at > calls[2].at
    /\ target = calls[2].filename
    /\ calls[1].filename # target
    /\ result = Ok
    /\ fs[out] = [ex |-> TRUE, data |-> <<1, 255>>]


\* -------------------------------------------------------------------------
\* The layout of a Standard entry (C13)
\* -------------------------------------------------------------------------

\* The lines of f from offset p on, as reader.lines() yields them
RECURSIVE lines_from(_, _)
lines_from(f, p) ==
    IF p >= Len(f) THEN << >>
    ELSE LET ln == read_line(f, p)
         IN  << line_of(ln.raw) >> \o lines_from(f, ln.next)

\* The lines of a Standard entry between its SIZE: line and its end marker
payload_lines(filename, data) ==
    LET ls == lines_from(entry_bytes(filename, data, FALSE), 0)
    IN  SubSeq(ls, 4, Len(ls) - 1)

\* t is a byte written as two uppercase hexadecimal digits
is_02X(t) ==
    /\ Len(t) = 2
    /\ \A k \in 1..2 : t[k] \in 48..57 \/ t[k] \in 65..70

\* C13: in an entry written with quantum=false, every line that carries
\* payload bytes begins with DATA: and carries at most 16 two-digit uppercase
\* hexadecimal tokens, the tokens of the DATA: lines in order are the
\* payload, and a payload of more than 16 bytes is on several DATA: lines
C13_StandardLayout ==
    \A i \in 1..Len(calls) :
        (calls[i].ok /\ ~calls[i].quantum) =>
            LET body == payload_lines(calls[i].filename, calls[i].data)
                tokens(k) ==
                    IF starts_with(body[k], DataTag)
                    THEN split_whitespace(slice_from(body[k], Len(DataTag)))
                    ELSE << >>
                data_lines == { k \in 1..Len(body) : starts_with(body[k], DataTag) }
            IN  /\ \A k \in 1..Len(body) :
                      split_whitespace(body[k]) # << >> =>
                          /\ starts_with(body[k], DataTag)
                          /\ Len(tokens(k)) <= 16
                          /\ \A t \in 1..Len(tokens(k)) : is_02X(tokens(k)[t])
                /\ concat([k \in 1..Len(body) |->
                             IF starts_with(body[k], DataTag)
                             THEN parse_tokens(slice_from(body[k], Len(DataTag)))
                             ELSE << >>])
                       = calls[i].data
                /\ Len(calls[i].data) > 16 => Cardinality(data_lines) >= 2


\* -------------------------------------------------------------------------
\* The lines of the archive, one by one (C14 to C17)
\* -------------------------------------------------------------------------

\* The two opening marker lines and the two closing marker lines
Openers == { StandardStart, QuantumStart }
Closers == { SubSeq(StandardEnd, 2, Len(StandardEnd)), QuantumEnd }

\* The line that the next iteration of the loop of load_from_db reads
next_line == line_of(read_line(fs[DbPath].data, pos).raw)

\* C14: a line is a start marker only when it is one of the two opening
\* markers and an end marker only when it is one of the two closing markers.
\* An iteration on any other line does not reset the name and the buffer and
\* does not enter an entry (a NAME: line sets the name); an iteration on a
\* line that is not a closing marker makes no match test: the call does not
\* return and does not leave the entry
C14_MarkerClassification ==
    [][ (pc = "scan" /\ pos < Len(fs[DbPath].data)) =>
          /\ next_line \notin Openers =>
                /\ IsPrefix(collected, collected')
                /\ current_name' = IF starts_with(next_line, NamePrefix)
                                   THEN after_first_colon(next_line)
                                   ELSE current_name
                /\ inside' => inside
          /\ next_line \notin Closers =>
                /\ pc' = "scan"
                /\ inside => inside' ]_vars


\* The lines that the loop of load_from_db has read so far
consumed == lines_from(SubSeq(pre[DbPath].data, 1, pos), 0)

\* The index, among the lines read, of the last opening marker (0: none)
own_start ==
    LET ks == { k \in 1..Len(consumed) : consumed[k] \in Openers }
    IN  IF ks = {} THEN 0 ELSE CHOOSE k \in ks : \A j \in ks : j <= k

\* The bytes on the DATA: and [HEX] lines read after line a and before line b
payload_between(a, b) ==
    concat([k \in 1..Len(consumed) |->
              IF /\ a < k
                 /\ k < b
                 /\ starts_with(consumed[k], DataTag) \/ starts_with(consumed[k], HexTag)
              THEN parse_tokens(slice_from(consumed[k], 5))
              ELSE << >>])

\* C15: the buffer and the name are empty right after an opening marker; the
\* bytes written on a match are bytes of payload lines located between the
\* opening marker of the matched entry and the line of the match (no byte
\* when no opening marker was read); and the name of an entry without a
\* NAME: line is empty
C15_NoLeak ==
    (pc \in {"scan", "done"} /\ pos > 0) =>
        LET n == Len(consumed)
            o == own_start
        IN  /\ consumed[n] \in Openers => (collected = << >> /\ current_name = << >>)
            /\ (pc = "done" /\ result = Ok) =>
                   IF o = 0 THEN fs[out].data = << >>
                   ELSE \E s \in o..(n - 1) : fs[out].data = payload_between(s, n)
            /\ (o > 0 /\ \A k \in (o + 1)..n : ~starts_with(consumed[k], NamePrefix))
                   => current_name = << >>


\* The last save_to_db call was interrupted after its start marker line and
\* before the text of its end marker was complete; a load_from_db call for
\* its name has returned, and no entry before this one is extracted under
\* that name
LoadedIncompleteEntry ==
    /\ pc = "done"
    /\ Len(calls) > 0
    /\ ~calls[Len(calls)].ok
    /\ Len(pre[DbPath].data) - calls[Len(calls)].at > Len(QuantumStart)
    /\ target = calls[Len(calls)].filename
    /\ ~extract(SubSeq(pre[DbPath].data, 1, calls[Len(calls)].at), target).wrote

\* C16: an incomplete trailing entry (no end marker, as an interrupted
\* append leaves it) is not extracted even under its own name: load_from_db
\* returns NotFound and writes nothing; and a call that has returned
\* returned Ok with the output written, or an error
C16_IncompleteTrailing ==
    /\ LoadedIncompleteEntry => (result = NotFoundInDb /\ OutputUntouched)
    /\ pc = "done" =>
          \/ result = Ok /\ fs[out].ex
          \/ ~result.ok /\ result.kind # ""


\* Line l is a NAME:, DATA: or [HEX] line or a closing marker
is_entry_line(l) ==
    \/ starts_with(l, NamePrefix)
    \/ starts_with(l, DataTag)
    \/ starts_with(l, HexTag)
    \/ l \in Closers

\* The archive f from offset p on, without the NAME:, DATA:, [HEX] and
\* closing marker lines that the scan for tgt, in state st at offset p, reads
\* while it is not inside an entry
RECURSIVE without_outside_lines(_, _, _, _)
without_outside_lines(f, p, st, tgt) ==
    IF p >= Len(f) THEN << >>
    ELSE LET ln == read_line(f, p)
             l == line_of(ln.raw)
             n == line_step(st, l, tgt)
             kept == IF ~st.inside /\ is_entry_line(l) THEN << >> ELSE ln.raw
         IN  IF n.hit THEN kept \o SubSeq(f, ln.next + 1, Len(f))
             ELSE kept \o without_outside_lines(f, ln.next, n, tgt)

\* C17: NAME:, DATA:, [HEX] and closing marker lines read outside an entry
\* have no effect: load_from_db returns and writes what it returns and
\* writes on the archive without these lines
C17_OutsideLinesInert ==
    (pc = "done" /\ pre[DbPath].ex) =>
        LET o == extract(without_outside_lines(pre[DbPath].data, 0, scan_init,
                                               target), target)
        IN  /\ o.res = result
            /\ o.wrote => fs[out] = [ex |-> TRUE, data |-> o.bytes]
            /\ ~o.wrote => OutputUntouched


\* -------------------------------------------------------------------------
\* The tokens of a payload line (C18)
\* -------------------------------------------------------------------------

\* t consists of exactly two hexadecimal digits
is_two_hex_digits(t) ==
    /\ Len(t) = 2
    /\ to_digit16(t[1]) # -1
    /\ to_digit16(t[2]) # -1

\* The bytes of the tokens of s that are two hexadecimal digits, in order
two_digit_bytes(s) ==
    LET parts == split_whitespace(s)
    IN  concat([i \in 1..Len(parts) |->
                  IF is_two_hex_digits(parts[i])
                  THEN << 16 * to_digit16(parts[i][1]) + to_digit16(parts[i][2]) >>
                  ELSE << >>])

\* C18: on a DATA: or [HEX] line a token adds a byte to the buffer if and
\* only if it is exactly two hexadecimal digits: an iteration on such a line
\* appends the bytes of its two-digit tokens and nothing else
C18_HexTokenStrict ==
    [][ (/\ pc = "scan"
         /\ pos < Len(fs[DbPath].data)
         /\ starts_with(next_line, DataTag) \/ starts_with(next_line, HexTag))
        => collected' = collected \o two_digit_bytes(slice_from(next_line, 5)) ]_vars


\* -------------------------------------------------------------------------
\* Concurrent save_to_db calls (C19)
\* -------------------------------------------------------------------------

\* The opening and closing marker lines of f, in file order
marker_lines(f) ==
    LET ls == lines_from(f, 0)
    IN  concat([i \in 1..Len(ls) |->
                  IF ls[i] \in Openers \cup Closers THEN << ls[i] >> ELSE << >>])

\* Opening and closing markers alternate in f, an opening marker first
properly_paired(f) ==
    LET m == marker_lines(f)
    IN  /\ Len(m) % 2 = 0
        /\ \A i \in 1..Len(m) :
              IF i % 2 = 1 THEN m[i] \in Openers ELSE m[i] \in Closers

\* Both threads' save_to_db calls have returned and a load_from_db call for
\* the name of thread w has returned
LoadedAfterBoth(w) ==
    /\ pc = "done"
    /\ \A v \in Threads : writers.proc[v].st = "done"
    /\ target = writers.proc[w].filename

\* load_from_db returned Ok and wrote the payload that thread w appended
ExtractedPayloadOf(w) ==
    /\ result = Ok
    /\ fs[out] = [ex |-> TRUE, data |-> writers.proc[w].data]

\* C19: save_to_db takes no lock and writes an entry in several writes.  When
\* the two calls do not overlap, in either order, both entries are
\* extractable; an interleaving of their writes that breaks the pairing of
\* the markers and the extraction of one of the names is the case of
\* C19_Witness
C19_SequentialExtractable ==
    \A w \in Threads :
        (LoadedAfterBoth(w) /\ ~writers.overlapped) =>
            (ExtractedPayloadOf(w) /\ properly_paired(fs[DbPath].data))

\* The two calls overlapped, their writes interleaved so that the markers are
\* no longer properly paired, and load_from_db for the name of one thread did
\* not return the payload appended under it
C19_Witness ==
    \E w \in Threads :
        /\ LoadedAfterBoth(w)
        /\ writers.overlapped
        /\ ~properly_paired(fs[DbPath].data)
        /\ ~ExtractedPayloadOf(w)

====
